---------------------------- MODULE Spec2Model ----------------------------
(***************************************************************************)
(* One call of sun_angles.calculate_daylight, statement by statement.      *)
(*                                                                         *)
(* Python values are tagged records: None, numbers, str (a sequence of     *)
(* characters), datetime, list, numpy.ndarray and a SpatialGeometry with   *)
(* its lat attribute.  The two functions the orchestrator delegates to     *)
(* (SHA_deg_from_DOY_lat, daylight_from_SHA) live in sibling modules of    *)
(* the package; their results are kept as exact symbolic terms over their  *)
(* arguments, elementwise over ndarrays, so two results are equal in the   *)
(* model only when they are the same expression over the same inputs.      *)
(* Latitudes are scalars; timestamps carry a calendar date only.           *)
(***************************************************************************)
EXTENDS Integers, Sequences, FiniteSets

(* Longest list / ndarray drawn as an input. *)
MaxLen == 2

---------------------------------------------------------------------------
(* Python values *)

None == [kind |-> "None"]
Num(n) == [kind |-> "number", value |-> n]
Str(cs) == [kind |-> "str", chars |-> cs]
Datetime(y, m, d) == [kind |-> "datetime", year |-> y, month |-> m, day |-> d]
PyList(s) == [kind |-> "list", items |-> s]
NdArray(s) == [kind |-> "ndarray", items |-> s]
SpatialGeometry(l) == [kind |-> "SpatialGeometry", lat |-> l]

(* The outcome of a call that may raise. *)
Ok(v) == [ok |-> TRUE, value |-> v]
Raise(e) == [ok |-> FALSE, error |-> e]

(* `x is None` *)
IsNone_truthiness(x) == x = None \/ x = Num(0) \/ x = PyList(<<>>)
IsNone(x) == x = None

(* isinstance(val, str) *)
isinstance_str(val) == val.kind = "str"

(* isinstance(x, (list, np.ndarray)) *)
isinstance_list_or_ndarray(x) == x.kind \in {"list", "ndarray"}

(* isinstance(x, list) *)
isinstance_list(x) == x.kind = "list"

---------------------------------------------------------------------------
(* Calendar: dateutil.parser.parse on ISO dates, pandas.Timestamp.dayofyear *)

Digits == <<"0", "1", "2", "3", "4", "5", "6", "7", "8", "9">>
IsDigit(c) == \E i \in 1..10 : Digits[i] = c
DigitVal(c) == (CHOOSE i \in 1..10 : Digits[i] = c) - 1

is_leapyear(y) == (y % 4 = 0 /\ y % 100 # 0) \/ y % 400 = 0

days_per_month(y, m) ==
    IF m = 2 THEN (IF is_leapyear(y) THEN 29 ELSE 28)
    ELSE IF m \in {4, 6, 9, 11} THEN 30 ELSE 31

(* Days before the first of each month, common year then leap year. *)
month_offset == << <<0, 31, 59, 90, 120, 151, 181, 212, 243, 273, 304, 334>>,
                   <<0, 31, 60, 91, 121, 152, 182, 213, 244, 274, 305, 335>> >>

(* pd.Timestamp(val).dayofyear *)
dayofyear(dt) ==
    month_offset[IF is_leapyear(dt.year) THEN 2 ELSE 1][dt.month] + dt.day

(* parser.parse(val) for a str: a date written YYYY-MM-DD is read off its
   digits; a string of any other shape, or one naming a day its month does
   not have, raises ParserError. *)
parser_parse(val) ==
    LET cs == val.chars
        shaped == /\ Len(cs) = 10
                  /\ cs[5] = "-" /\ cs[8] = "-"
                  /\ \A i \in {1, 2, 3, 4, 6, 7, 9, 10} : IsDigit(cs[i])
        y == 1000 * DigitVal(cs[1]) + 100 * DigitVal(cs[2])
             + 10 * DigitVal(cs[3]) + DigitVal(cs[4])
        m == 10 * DigitVal(cs[6]) + DigitVal(cs[7])
        d == 10 * DigitVal(cs[9]) + DigitVal(cs[10])
    IN  IF ~shaped THEN Raise("ParserError")
        ELSE IF y >= 1 /\ m \in 1..12 /\ d \in 1..days_per_month(y, m)
             THEN Ok(Datetime(y, m, d))
             ELSE Raise("ParserError")

(* def to_doy(val) *)
to_doy_dayofmonth(val) ==
    LET parsed == IF isinstance_str(val) THEN parser_parse(val) ELSE Ok(val)
    IN  IF ~parsed.ok THEN parsed
        ELSE Ok(Num(parsed.value.day))
to_doy(val) ==
    LET parsed == IF isinstance_str(val) THEN parser_parse(val) ELSE Ok(val)
    IN  IF ~parsed.ok THEN parsed
        ELSE Ok(Num(dayofyear(parsed.value)))

(* [to_doy(t) for t in time_UTC]: left to right, the first element that
   raises ends the comprehension and nothing is kept. *)
RECURSIVE comprehension_skipping(_, _)
comprehension_skipping(items, done) ==
    IF items = <<>> THEN Ok(done)
    ELSE LET r == to_doy(Head(items))
         IN  IF ~r.ok THEN comprehension_skipping(Tail(items), done)
             ELSE comprehension_skipping(Tail(items), Append(done, r.value))
RECURSIVE comprehension(_, _)
comprehension(items, done) ==
    IF items = <<>> THEN Ok(done)
    ELSE LET r == to_doy(Head(items))
         IN  IF ~r.ok THEN r
             ELSE comprehension(Tail(items), Append(done, r.value))

(* The values handed to parser.parse, in order, up to and including the
   first one that raises. *)
RECURSIVE parsed_strings(_)
parsed_strings(items) ==
    IF items = <<>> THEN <<>>
    ELSE IF ~isinstance_str(Head(items)) THEN parsed_strings(Tail(items))
    ELSE IF ~parser_parse(Head(items)).ok THEN <<Head(items)>>
    ELSE <<Head(items)>> \o parsed_strings(Tail(items))

---------------------------------------------------------------------------
(* The two delegates *)

(* SHA_deg_from_DOY_lat(DOY, latitude) at one day and one latitude: the
   sunrise hour angle, kept as the expression over its arguments. *)
SHA_at(DOY, latitude) == [kind |-> "SHA_deg", DOY |-> DOY, latitude |-> latitude]

(* SHA_deg_from_DOY_lat(DOY, latitude): elementwise over an ndarray of days;
   arithmetic on None or on a plain list raises TypeError. *)
SHA_deg_from_DOY_lat(DOY, latitude) ==
    IF DOY.kind \in {"None", "list"} \/ latitude.kind \in {"None", "list"}
    THEN Raise("TypeError")
    ELSE IF DOY.kind = "ndarray"
    THEN Ok(NdArray([i \in 1..Len(DOY.items) |-> SHA_at(DOY.items[i], latitude)]))
    ELSE Ok(SHA_at(DOY, latitude))

(* (2 / 15) x SHA_deg at one value. *)
hours_at(SHA) == [kind |-> "hours", two_fifteenths_of |-> SHA]

(* daylight_from_SHA(SHA_deg): elementwise over an ndarray. *)
daylight_from_SHA(SHA) ==
    IF SHA.kind \in {"None", "list"} THEN Raise("TypeError")
    ELSE IF SHA.kind = "ndarray"
    THEN Ok(NdArray([i \in 1..Len(SHA.items) |-> hours_at(SHA.items[i])]))
    ELSE Ok(hours_at(SHA))

---------------------------------------------------------------------------
(* The inputs a call is made with *)

RECURSIVE FormatDigits(_, _)
FormatDigits(n, width) ==
    IF width = 0 THEN <<>>
    ELSE Append(FormatDigits(n \div 10, width - 1), Digits[(n % 10) + 1])

(* The date written YYYY-MM-DD. *)
ISO(y, m, d) ==
    Str(FormatDigits(y, 4) \o <<"-">> \o FormatDigits(m, 2) \o <<"-">> \o FormatDigits(d, 2))

Years == {1900, 2000, 2024, 2025}
Days == {1, 21, 29, 31}
Dates == {ymd \in Years \X (1..12) \X Days : ymd[3] <= days_per_month(ymd[1], ymd[2])}

(* Strings dateutil cannot read as a date. *)
Unparsable == {Str(<<"n", "o", "t", "-", "a", "-", "d", "a", "t", "e">>),
               ISO(2025, 2, 30)}

SingleTimes == {ISO(ymd[1], ymd[2], ymd[3]) : ymd \in Dates}
               \cup {Datetime(ymd[1], ymd[2], ymd[3]) : ymd \in Dates}
               \cup Unparsable

(* The elements of a list or ndarray of timestamps. *)
TimeElements == {ISO(2025, 6, 21), ISO(2025, 12, 21), Datetime(2024, 12, 31),
                 ISO(2025, 2, 30), Str(<<"n", "o", "t", "-", "a", "-", "d", "a", "t", "e">>)}

SeqsUpTo(S, n) == UNION {[1..k -> S] : k \in 0..n}

TimeInputs == {None} \cup SingleTimes
              \cup {PyList(s) : s \in SeqsUpTo(TimeElements, MaxLen)}
              \cup {NdArray(s) : s \in SeqsUpTo(TimeElements, MaxLen)}

DayElements == {Num(172), Num(355)}
DayInputs == {None, Num(0), Num(172), Num(366)}
             \cup {PyList(s) : s \in SeqsUpTo(DayElements, MaxLen)}
             \cup {NdArray(s) : s \in SeqsUpTo(DayElements, MaxLen)}

LatInputs == {None, Num(0), Num(34)}
GeometryInputs == {None, SpatialGeometry(Num(51))}
SHAInputs == {None, Num(0), Num(100), NdArray(<<Num(0), Num(100)>>)}

---------------------------------------------------------------------------
(* The call *)

VARIABLES
    day_of_year, lat, SHA_deg, time_UTC, geometry,  \* parameters (rebound as locals)
    daylight_hours,                                 \* local
    pc,                                             \* the statement about to run
    returned, raised,                               \* how the call ended
    supplied,                                       \* the arguments as passed
    calls                                           \* calls made out of the function, in order

vars == <<day_of_year, lat, SHA_deg, time_UTC, geometry, daylight_hours,
          pc, returned, raised, supplied, calls>>

(* A local not yet bound / a call that has not returned. *)
Unbound == [kind |-> "unbound"]
NoError == "none"

Init ==
    /\ day_of_year \in DayInputs
    /\ lat \in LatInputs
    /\ SHA_deg \in SHAInputs
    /\ time_UTC \in TimeInputs
    /\ geometry \in GeometryInputs
    /\ daylight_hours = Unbound
    /\ pc = "if_SHA_deg_is_None"
    /\ returned = Unbound
    /\ raised = NoError
    /\ supplied = [day_of_year |-> day_of_year, lat |-> lat, SHA_deg |-> SHA_deg,
                   time_UTC |-> time_UTC, geometry |-> geometry]
    /\ calls = <<>>

(* if SHA_deg is None: *)
after_SHA_test_always(sha) == "resolve_lat"
after_SHA_test(sha) == IF IsNone(sha) THEN "resolve_lat" ELSE "daylight_from_SHA"

TestSHA ==
    /\ pc = "if_SHA_deg_is_None"
    /\ pc' = after_SHA_test(SHA_deg)
    /\ UNCHANGED <<day_of_year, lat, SHA_deg, time_UTC, geometry, daylight_hours,
                   returned, raised, supplied, calls>>

(* if lat is None and geometry is not None: lat = geometry.lat *)
reads_geometry_whenever_present(l, g) == ~IsNone(g)
reads_geometry(l, g) == IsNone(l) /\ ~IsNone(g)

ResolveLat ==
    /\ pc = "resolve_lat"
    /\ IF reads_geometry(lat, geometry)
       THEN /\ lat' = geometry.lat
            /\ calls' = Append(calls, [op |-> "geometry.lat", of |-> geometry])
       ELSE UNCHANGED <<lat, calls>>
    /\ pc' = "resolve_day_of_year"
    /\ UNCHANGED <<day_of_year, SHA_deg, time_UTC, geometry, daylight_hours,
                   returned, raised, supplied>>

(* if day_of_year is None and time_UTC is not None: *)
derives_day_whenever_time(doy, t) == ~IsNone(t)
derives_day(doy, t) == IsNone(doy) /\ ~IsNone(t)

(* The right-hand side of the assignment to day_of_year in lines 73-76. *)
day_from_time_reversed(t) ==
    IF isinstance_list_or_ndarray(t)
    THEN LET r == comprehension(t.items, <<>>)
         IN  IF r.ok
             THEN Ok(NdArray([i \in 1..Len(r.value) |-> r.value[Len(r.value) + 1 - i]]))
             ELSE r
    ELSE to_doy(t)
day_from_time(t) ==
    IF isinstance_list_or_ndarray(t)
    THEN LET r == comprehension(t.items, <<>>)
         IN  IF r.ok THEN Ok(NdArray(r.value)) ELSE r
    ELSE to_doy(t)

(* The parser.parse calls that assignment makes. *)
parse_calls(t) ==
    LET strs == IF isinstance_list_or_ndarray(t) THEN parsed_strings(t.items)
                ELSE parsed_strings(<<t>>)
    IN  [i \in 1..Len(strs) |-> [op |-> "parser.parse", of |-> strs[i]]]

ResolveDayOfYear ==
    /\ pc = "resolve_day_of_year"
    /\ IF derives_day(day_of_year, time_UTC)
       THEN LET r == day_from_time(time_UTC)
            IN  /\ calls' = calls \o parse_calls(time_UTC)
                /\ IF r.ok
                   THEN /\ day_of_year' = r.value
                        /\ pc' = "normalize_day_of_year"
                        /\ UNCHANGED raised
                   ELSE /\ raised' = r.error
                        /\ pc' = "raised"
                        /\ UNCHANGED day_of_year
       ELSE /\ pc' = "normalize_day_of_year"
            /\ UNCHANGED <<day_of_year, raised, calls>>
    /\ UNCHANGED <<lat, SHA_deg, time_UTC, geometry, daylight_hours, returned, supplied>>

(* if isinstance(day_of_year, list): day_of_year = np.array(day_of_year) *)
np_array_skipped(doy) == doy
np_array_if_list(doy) == IF isinstance_list(doy) THEN NdArray(doy.items) ELSE doy

NormalizeDayOfYear ==
    /\ pc = "normalize_day_of_year"
    /\ day_of_year' = np_array_if_list(day_of_year)
    /\ pc' = "SHA_deg_from_DOY_lat"
    /\ UNCHANGED <<lat, SHA_deg, time_UTC, geometry, daylight_hours,
                   returned, raised, supplied, calls>>

(* SHA_deg = SHA_deg_from_DOY_lat(day_of_year, lat) *)
CallEngine ==
    /\ pc = "SHA_deg_from_DOY_lat"
    /\ LET r == SHA_deg_from_DOY_lat(day_of_year, lat)
       IN  /\ calls' = Append(calls, [op |-> "SHA_deg_from_DOY_lat", DOY |-> day_of_year,
                                      latitude |-> lat, out |-> r])
           /\ IF r.ok
              THEN /\ SHA_deg' = r.value
                   /\ pc' = "daylight_from_SHA"
                   /\ UNCHANGED raised
              ELSE /\ raised' = r.error
                   /\ pc' = "raised"
                   /\ UNCHANGED SHA_deg
    /\ UNCHANGED <<day_of_year, lat, time_UTC, geometry, daylight_hours, returned, supplied>>

(* daylight_hours = daylight_from_SHA(SHA_deg) *)
CallConverter ==
    /\ pc = "daylight_from_SHA"
    /\ LET r == daylight_from_SHA(SHA_deg)
       IN  /\ calls' = Append(calls, [op |-> "daylight_from_SHA", SHA_deg |-> SHA_deg,
                                      out |-> r])
           /\ IF r.ok
              THEN /\ daylight_hours' = r.value
                   /\ pc' = "return"
                   /\ UNCHANGED raised
              ELSE /\ raised' = r.error
                   /\ pc' = "raised"
                   /\ UNCHANGED daylight_hours
    /\ UNCHANGED <<day_of_year, lat, SHA_deg, time_UTC, geometry, returned, supplied>>

(* return daylight_hours *)
return_value_SHA(hours, sha) == sha
return_value(hours, sha) == hours

Return ==
    /\ pc = "return"
    /\ returned' = return_value(daylight_hours, SHA_deg)
    /\ pc' = "returned"
    /\ UNCHANGED <<day_of_year, lat, SHA_deg, time_UTC, geometry, daylight_hours,
                   raised, supplied, calls>>

Next ==
    \/ TestSHA
    \/ ResolveLat
    \/ ResolveDayOfYear
    \/ NormalizeDayOfYear
    \/ CallEngine
    \/ CallConverter
    \/ Return

Spec == Init /\ [][Next]_vars

Done == pc \in {"returned", "raised"}

---------------------------------------------------------------------------
(* Reading the record of calls *)

IsEngineCall(e) == e.op = "SHA_deg_from_DOY_lat"
IsConverterCall(e) == e.op = "daylight_from_SHA"
IsParseCall(e) == e.op = "parser.parse"
IsGeometryRead(e) == e.op = "geometry.lat"

EngineCalls == SelectSeq(calls, IsEngineCall)
ConverterCalls == SelectSeq(calls, IsConverterCall)
ParseCalls == SelectSeq(calls, IsParseCall)
GeometryReads == SelectSeq(calls, IsGeometryRead)

(* The calendar, independently of the parser and of the month-offset table:
   the days of the months before m, plus d. *)
RECURSIVE DaysBefore(_, _)
DaysBefore(y, m) == IF m = 1 THEN 0 ELSE DaysBefore(y, m - 1) + days_per_month(y, m - 1)
OrdinalDay(ymd) == DaysBefore(ymd[1], ymd[2]) + ymd[3]

(* The strings that write a date of the calendar, and the date each writes. *)
DateStrings == {ISO(ymd[1], ymd[2], ymd[3]) : ymd \in Dates}
DateWritten == [s \in DateStrings |->
                    CHOOSE ymd \in Dates : ISO(ymd[1], ymd[2], ymd[3]) = s]

(* A single timestamp that denotes a date, and that date. *)
Parsable(t) == t.kind = "datetime" \/ (t.kind = "str" /\ t \in DateStrings)
DateOf(t) == IF t.kind = "datetime" THEN <<t.year, t.month, t.day>> ELSE DateWritten[t]

IsSequence(t) == t.kind \in {"list", "ndarray"}
AllParsable(t) == \A i \in 1..Len(t.items) : Parsable(t.items[i])

(* The latitude the arguments determine. *)
LatitudeOf(args) ==
    IF args.lat # None THEN args.lat
    ELSE IF args.geometry # None THEN args.geometry.lat
    ELSE None

(* What a call with a scalar day d and latitude L comes to: the hours of the
   sunrise hour angle of (d, L), or the Engine's TypeError on a missing L. *)
ScalarOutcome(d, L) ==
    IF L = None THEN Raise("TypeError") ELSE Ok(hours_at(SHA_at(d, L)))

(* How the call ended, once it has. *)
Outcome == IF pc = "returned" THEN Ok(returned) ELSE Raise(raised)

---------------------------------------------------------------------------
(* C1: when SHA_deg is supplied, the call goes straight to the Daylight
   Converter: whatever the other four arguments are, none is read, parsed or
   rebound, the Engine is not invoked, nothing is raised, and the value
   returned is the Converter's value at the supplied SHA_deg. *)
C1_SHA_supplied_short_circuits ==
    supplied.SHA_deg # None =>
        /\ pc \in {"if_SHA_deg_is_None", "daylight_from_SHA", "return", "returned"}
        /\ EngineCalls = <<>> /\ ParseCalls = <<>> /\ GeometryReads = <<>>
        /\ raised = NoError
        /\ lat = supplied.lat /\ day_of_year = supplied.day_of_year
        /\ SHA_deg = supplied.SHA_deg
        /\ \A i \in 1..Len(ConverterCalls) : ConverterCalls[i].SHA_deg = supplied.SHA_deg
        /\ pc = "returned" =>
              /\ Len(ConverterCalls) = 1
              /\ returned = daylight_from_SHA(supplied.SHA_deg).value
              /\ supplied.SHA_deg = Num(100) => returned = hours_at(Num(100))

(* SHA_deg = 100 with every other argument absent or unusable. *)
C1_witness ==
    /\ pc = "returned"
    /\ supplied.SHA_deg = Num(100)
    /\ supplied.time_UTC = ISO(2025, 2, 30)
    /\ supplied.day_of_year = None /\ supplied.lat = None /\ supplied.geometry = None
    /\ returned = hours_at(Num(100))

(* C2: with SHA_deg absent and no latitude source, or no day-of-year source,
   the resolver itself ends the call with MissingInput: the Engine is never
   invoked with an absent latitude or day-of-year and nothing is returned. *)
C2_missing_input_raised_by_resolver ==
    (/\ supplied.SHA_deg = None
     /\ \/ (supplied.lat = None /\ supplied.geometry = None)
        \/ (supplied.day_of_year = None /\ supplied.time_UTC = None)) =>
        /\ \A i \in 1..Len(EngineCalls) :
              EngineCalls[i].DOY # None /\ EngineCalls[i].latitude # None
        /\ returned = Unbound
        /\ Done => raised = "MissingInput"

(* C3: with SHA_deg and day_of_year absent, a call on one parsable timestamp t
   comes to exactly what the call on day_of_year = d comes to at the same
   latitude arguments, d being t's ordinal day in its year: both end as
   ScalarOutcome(d, latitude).  The derived d is an integer in 1..366;
   2025-06-21 gives 172 and Dec 31 of a leap year gives 366. *)
C3_timestamp_call_equals_day_call ==
    supplied.SHA_deg = None =>
        /\ (/\ supplied.day_of_year = None
            /\ supplied.time_UTC # None
            /\ ~IsSequence(supplied.time_UTC)
            /\ Parsable(supplied.time_UTC)) =>
               LET d == OrdinalDay(DateOf(supplied.time_UTC))
               IN  /\ d \in 1..366
                   /\ pc \notin {"if_SHA_deg_is_None", "resolve_lat", "resolve_day_of_year"}
                         => day_of_year = Num(d)
                   /\ Done => Outcome = ScalarOutcome(Num(d), LatitudeOf(supplied))
                   /\ DateOf(supplied.time_UTC) = <<2025, 6, 21>> => d = 172
                   /\ (DateOf(supplied.time_UTC)[2] = 12 /\ DateOf(supplied.time_UTC)[3] = 31)
                         => d = IF is_leapyear(DateOf(supplied.time_UTC)[1]) THEN 366 ELSE 365
        /\ (supplied.day_of_year # None /\ supplied.day_of_year.kind = "number" /\ Done) =>
               Outcome = ScalarOutcome(supplied.day_of_year, LatitudeOf(supplied))

(* time_UTC = '2024-12-31', lat = 34.0 returns the hours of day 366. *)
C3_witness ==
    /\ pc = "returned"
    /\ supplied.time_UTC = ISO(2024, 12, 31)
    /\ supplied.day_of_year = None /\ supplied.SHA_deg = None
    /\ supplied.lat = Num(34)
    /\ returned = hours_at(SHA_at(Num(366), Num(34)))

(* C4: with SHA_deg and day_of_year absent, a list or ndarray of n parsable
   timestamps gives an ndarray of the n ordinal days in the same order, and the
   call returns n values, the i-th being what the scalar call on the i-th
   timestamp returns at the same latitude (n = 0 and n = 1 included); a single
   timestamp gives a scalar day. *)
C4_sequence_is_elementwise ==
    (supplied.SHA_deg = None /\ supplied.day_of_year = None /\ supplied.time_UTC # None) =>
        /\ (IsSequence(supplied.time_UTC) /\ AllParsable(supplied.time_UTC)) =>
               LET ts == supplied.time_UTC.items
                   n == Len(ts)
                   L == LatitudeOf(supplied)
               IN  /\ raised # "ParserError"
                   /\ pc \notin {"if_SHA_deg_is_None", "resolve_lat", "resolve_day_of_year"} =>
                         /\ day_of_year.kind = "ndarray"
                         /\ Len(day_of_year.items) = n
                         /\ \A i \in 1..n :
                               day_of_year.items[i] = Num(OrdinalDay(DateOf(ts[i])))
                   /\ (Done /\ L # None) =>
                         /\ pc = "returned"
                         /\ returned.kind = "ndarray"
                         /\ Len(returned.items) = n
                         /\ \A i \in 1..n :
                               Ok(returned.items[i])
                                   = ScalarOutcome(Num(OrdinalDay(DateOf(ts[i]))), L)
                   /\ (Done /\ L = None) => Outcome = Raise("TypeError")
        /\ (~IsSequence(supplied.time_UTC) /\ Parsable(supplied.time_UTC)) =>
               (pc \notin {"if_SHA_deg_is_None", "resolve_lat", "resolve_day_of_year"}
                    => day_of_year.kind = "number")

(* time_UTC = ['2025-06-21', '2025-12-21'], lat = 34.0. *)
C4_witness ==
    /\ pc = "returned"
    /\ supplied.time_UTC = PyList(<<ISO(2025, 6, 21), ISO(2025, 12, 21)>>)
    /\ supplied.day_of_year = None /\ supplied.SHA_deg = None
    /\ supplied.lat = Num(34)
    /\ returned = NdArray(<<hours_at(SHA_at(Num(172), Num(34))),
                            hours_at(SHA_at(Num(355), Num(34)))>>)

(* C5: with SHA_deg and day_of_year absent, a time_UTC that cannot be parsed
   (a single value, or an element anywhere in a sequence) ends the call with
   the parser's own error: neither the Engine nor the Converter is invoked,
   day_of_year stays unset and nothing is returned. *)
C5_unparsable_timestamp_propagates ==
    (/\ supplied.SHA_deg = None /\ supplied.day_of_year = None
     /\ supplied.time_UTC # None
     /\ IF IsSequence(supplied.time_UTC) THEN ~AllParsable(supplied.time_UTC)
        ELSE ~Parsable(supplied.time_UTC)) =>
        /\ pc \in {"if_SHA_deg_is_None", "resolve_lat", "resolve_day_of_year", "raised"}
        /\ EngineCalls = <<>> /\ ConverterCalls = <<>>
        /\ day_of_year = None /\ daylight_hours = Unbound
        /\ returned = Unbound
        /\ pc = "raised" =>
              /\ raised = "ParserError"
              /\ ParseCalls # <<>>
              /\ ~Parsable(ParseCalls[Len(ParseCalls)].of)
              /\ \A i \in 1..(Len(ParseCalls) - 1) : Parsable(ParseCalls[i].of)

(* The second of two elements is the one that cannot be parsed. *)
C5_witness ==
    /\ pc = "raised" /\ raised = "ParserError"
    /\ supplied.time_UTC = PyList(<<ISO(2025, 6, 21), ISO(2025, 2, 30)>>)
    /\ supplied.lat = Num(34)
    /\ Len(ParseCalls) = 2
    /\ returned = Unbound

(* C6: with SHA_deg absent, the Engine's latitude is the supplied lat whenever
   lat is supplied, with or without a geometry; geometry.lat is read only when
   lat is absent and a geometry is given, and then the Engine gets exactly that
   attribute's value.  The geometry is never modified. *)
C6_latitude_resolution ==
    /\ geometry = supplied.geometry
    /\ supplied.SHA_deg = None =>
        /\ \A i \in 1..Len(EngineCalls) :
              EngineCalls[i].latitude =
                  IF supplied.lat # None THEN supplied.lat
                  ELSE IF supplied.geometry # None THEN supplied.geometry.lat
                  ELSE None
        /\ GeometryReads # <<>> =>
              /\ supplied.lat = None /\ supplied.geometry # None
              /\ Len(GeometryReads) = 1
              /\ GeometryReads[1].of = supplied.geometry
        /\ (supplied.lat = None /\ supplied.geometry # None
            /\ pc \notin {"if_SHA_deg_is_None", "resolve_lat"}) =>
              (Len(GeometryReads) = 1 /\ lat = supplied.geometry.lat)

(* lat absent: the Engine gets the geometry's latitude. *)
C6_witness ==
    /\ supplied.SHA_deg = None /\ supplied.lat = None
    /\ supplied.geometry = SpatialGeometry(Num(51))
    /\ Len(EngineCalls) = 1 /\ EngineCalls[1].latitude = Num(51)
    /\ pc = "returned"

(* C7: with SHA_deg absent, a supplied day_of_year wins over time_UTC: the
   Engine gets the supplied day_of_year (as an ndarray if it was a list),
   time_UTC is never parsed, so an unparsable time_UTC raises nothing;
   time_UTC is parsed only when day_of_year is absent. *)
C7_day_of_year_precedence ==
    supplied.SHA_deg = None =>
        /\ supplied.day_of_year # None =>
              /\ ParseCalls = <<>>
              /\ raised # "ParserError"
              /\ \A i \in 1..Len(EngineCalls) :
                    EngineCalls[i].DOY =
                        IF supplied.day_of_year.kind = "list"
                        THEN NdArray(supplied.day_of_year.items)
                        ELSE supplied.day_of_year
        /\ ParseCalls # <<>> => supplied.day_of_year = None

(* day_of_year = 172 together with a time_UTC that cannot be parsed. *)
C7_witness ==
    /\ pc = "returned"
    /\ supplied.SHA_deg = None
    /\ supplied.day_of_year = Num(172)
    /\ supplied.time_UTC = ISO(2025, 2, 30)
    /\ supplied.lat = Num(34)
    /\ returned = hours_at(SHA_at(Num(172), Num(34)))

(* The position of the first call of the kind in the record, 0 if none. *)
FirstIndex(IsKind(_)) ==
    IF \E i \in 1..Len(calls) : IsKind(calls[i])
    THEN CHOOSE i \in 1..Len(calls) : IsKind(calls[i]) /\ \A j \in 1..(i - 1) : ~IsKind(calls[j])
    ELSE 0

(* C8: a call that returns has invoked the Daylight Converter exactly once, as
   its last call, and returns the Converter's value unchanged; it has invoked
   the Engine once if SHA_deg was absent and not at all otherwise, before the
   Converter, after the latitude and day-of-year reads, on a latitude and a
   day-of-year that are both set, and the Converter's argument is the Engine's
   value.  At no point is either invoked twice, or the Converter first. *)
C8_engine_then_converter ==
    /\ Len(EngineCalls) <= 1 /\ Len(ConverterCalls) <= 1
    /\ (EngineCalls # <<>> /\ ConverterCalls # <<>>) =>
          FirstIndex(IsEngineCall) < FirstIndex(IsConverterCall)
    /\ pc = "returned" =>
          /\ Len(ConverterCalls) = 1
          /\ IsConverterCall(calls[Len(calls)])
          /\ ConverterCalls[1].out = Ok(returned)
          /\ Len(EngineCalls) = IF supplied.SHA_deg = None THEN 1 ELSE 0
          /\ supplied.SHA_deg # None => ConverterCalls[1].SHA_deg = supplied.SHA_deg
          /\ supplied.SHA_deg = None =>
                /\ FirstIndex(IsEngineCall) = Len(calls) - 1
                /\ \A j \in 1..(Len(calls) - 2) : IsGeometryRead(calls[j]) \/ IsParseCall(calls[j])
                /\ EngineCalls[1].DOY # None /\ EngineCalls[1].latitude # None
                /\ EngineCalls[1].DOY = day_of_year /\ EngineCalls[1].latitude = lat
                /\ EngineCalls[1].out.ok
                /\ ConverterCalls[1].SHA_deg = EngineCalls[1].out.value

(* geometry.lat read, one timestamp parsed, then the Engine, then the Converter. *)
C8_witness ==
    /\ pc = "returned"
    /\ supplied.SHA_deg = None /\ supplied.lat = None /\ supplied.day_of_year = None
    /\ Len(calls) = 4
    /\ IsGeometryRead(calls[1]) /\ IsParseCall(calls[2])
    /\ IsEngineCall(calls[3]) /\ IsConverterCall(calls[4])
    /\ returned = calls[4].out.value

(* C9: with SHA_deg absent, a day_of_year given as a plain list reaches the
   Engine as an ndarray of the same values in the same order and number; one
   given as an ndarray or a scalar reaches it as it was given. *)
C9_list_day_of_year_becomes_ndarray ==
    (supplied.SHA_deg = None /\ supplied.day_of_year # None) =>
        /\ \A i \in 1..Len(EngineCalls) :
              LET given == supplied.day_of_year
                  got == EngineCalls[i].DOY
              IN  IF given.kind = "list"
                  THEN /\ got.kind = "ndarray"
                       /\ Len(got.items) = Len(given.items)
                       /\ \A k \in 1..Len(given.items) : got.items[k] = given.items[k]
                  ELSE got = given
        /\ pc \in {"SHA_deg_from_DOY_lat", "daylight_from_SHA", "return", "returned"}
              => day_of_year.kind # "list"

(* day_of_year = [172, 355] reaches the Engine as an ndarray and the call returns. *)
C9_witness ==
    /\ pc = "returned"
    /\ supplied.SHA_deg = None
    /\ supplied.day_of_year = PyList(<<Num(172), Num(355)>>)
    /\ Len(EngineCalls) = 1
    /\ EngineCalls[1].DOY = NdArray(<<Num(172), Num(355)>>)

(* C10: an argument is supplied whenever it is not None, zero included:
   SHA_deg = 0 goes straight to the Converter without the Engine; lat = 0.0 is
   the Engine's latitude and geometry is not read; day_of_year = 0 is the
   Engine's day and time_UTC is not parsed. *)
C10_zero_counts_as_supplied ==
    /\ supplied.SHA_deg = Num(0) =>
          /\ EngineCalls = <<>> /\ GeometryReads = <<>> /\ ParseCalls = <<>>
          /\ pc \in {"if_SHA_deg_is_None", "daylight_from_SHA", "return", "returned"}
          /\ pc = "returned" => returned = hours_at(Num(0))
    /\ (supplied.SHA_deg = None /\ supplied.lat = Num(0)) =>
          /\ GeometryReads = <<>>
          /\ lat = Num(0)
          /\ \A i \in 1..Len(EngineCalls) : EngineCalls[i].latitude = Num(0)
    /\ (supplied.SHA_deg = None /\ supplied.day_of_year = Num(0)) =>
          /\ ParseCalls = <<>>
          /\ day_of_year = Num(0)
          /\ raised # "ParserError"
          /\ \A i \in 1..Len(EngineCalls) : EngineCalls[i].DOY = Num(0)

(* lat = 0.0 and day_of_year = 0 with a geometry and a time_UTC also given. *)
C10_witness ==
    /\ pc = "returned"
    /\ supplied.SHA_deg = None
    /\ supplied.lat = Num(0) /\ supplied.day_of_year = Num(0)
    /\ supplied.geometry = SpatialGeometry(Num(51))
    /\ supplied.time_UTC = ISO(2025, 6, 21)
    /\ returned = hours_at(SHA_at(Num(0), Num(0)))

=============================================================================
